---- MODULE Spec2Model ----
(***************************************************************************)
(* The content synchronisation pipeline of the documentation toolkit:     *)
(* SyncReadme (src/src/commands/sync-readme.ts) driving DownloadGithub     *)
(* (src/src/utils/download-github.ts).                                     *)
(*                                                                          *)
(* Text is a sequence of one-character strings, so that the regular        *)
(* expressions of cleanMarkdownForMDX and the endsWith tests act on        *)
(* characters as they do in the source.                                    *)
(***************************************************************************)
EXTENDS Integers, Sequences, FiniteSets, TLC

VARIABLES
    sources,    \* config.sync.sources
    token,      \* config.github.token, handed to the downloader
    fallbackReadable, \* whether the document at config.sync.fallbackContentPath can be read
    files,      \* the file at cacheDir/<output>, for every output path
    pc,         \* position of run()/syncAll()
    idx,        \* index of the source of the current loop iteration
    attempts,   \* indexes of the sources syncSource was called for, in call order
    results,    \* syncAll's results array
    hist,       \* what happened to each source syncSource was called for
    dl,         \* the download of the current source
    summary,    \* the summary syncAll returned, NoSummary before
    thrown,     \* message of the exception travelling to run()'s catch
    exitCode,   \* the set holding the process exit code, empty before the exit
    exitMsg,    \* the message of the final this.error
    log,        \* the warnings the claims speak of
    stray,      \* the sources whose download settled with a request still in flight
    call,       \* the download(url, options) call of a downloader exercised on its own
    requests,   \* the requests that call has issued, in order
    responses,  \* the responses that call has received, in order
    mdx,        \* a text and the results of successive cleanMarkdownForMDX passes over it
    multi       \* a downloadMultiple(urls, options) call: its downloads and its promise

config == <<sources, token, fallbackReadable>>

\* What a run of the sync-readme command leaves alone.
apart == <<call, requests, responses, mdx, multi>>

vars == <<sources, token, fallbackReadable, files, pc, idx, attempts, results, hist, dl,
          summary, thrown, exitCode, exitMsg, log, stray, call, requests, responses, mdx,
          multi>>

----------------------------------------------------------------------------
(* Bounds *)

MaxSources == 2
\* The largest maxRedirects option a download call is given.
MaxRedirectsOption == 2
\* The most fragments a text handed to cleanMarkdownForMDX is made of, and the
\* most passes of cleanMarkdownForMDX over it.
MaxFragments == 3
\* The most urls downloadMultiple is given.
MaxUrls == 2
MaxPasses == 2

----------------------------------------------------------------------------
(* Text helpers *)

MatchAt(s, i, p) ==
    /\ i >= 1
    /\ i + Len(p) - 1 <= Len(s)
    /\ SubSeq(s, i, i + Len(p) - 1) = p

EndsWith(s, p) == Len(p) <= Len(s) /\ MatchAt(s, Len(s) - Len(p) + 1, p)

Min(S) == CHOOSE x \in S : \A y \in S : x <= y

CommentOpen == <<"<", "!", "-", "-">>
CommentClose == <<"-", "-", ">">>
BrTag == <<"<", "b", "r", ">">>
BrClosed == <<"<", "b", "r", " ", "/", ">">>
HrTag == <<"<", "h", "r", ">">>
HrClosed == <<"<", "h", "r", " ", "/", ">">>
ImgOpen == <<"<", "i", "m", "g", " ">>
SelfClose == <<" ", "/", ">">>

\* content.replace(/<!--[\s\S]*?-->/g, ''): leftmost match, shortest body, then on
\* from the end of the match.
RECURSIVE RemoveCommentsFrom(_, _)
RemoveCommentsFrom(s, i) ==
    IF i > Len(s) THEN <<>>
    ELSE LET ends == {j \in (i + 4)..Len(s) : MatchAt(s, j, CommentClose)}
         IN  IF MatchAt(s, i, CommentOpen) /\ ends # {}
             THEN RemoveCommentsFrom(s, Min(ends) + 3)
             ELSE <<s[i]>> \o RemoveCommentsFrom(s, i + 1)

RemoveComments(s) == RemoveCommentsFrom(s, 1)

\* content.replace(/<br>/g, '<br />') and the like: every non-overlapping
\* occurrence of a literal, left to right.
RECURSIVE ReplaceAllFrom(_, _, _, _)
ReplaceAllFrom(s, i, pat, rep) ==
    IF i > Len(s) THEN <<>>
    ELSE IF MatchAt(s, i, pat)
         THEN rep \o ReplaceAllFrom(s, i + Len(pat), pat, rep)
         ELSE <<s[i]>> \o ReplaceAllFrom(s, i + 1, pat, rep)

ReplaceAll(s, pat, rep) == ReplaceAllFrom(s, 1, pat, rep)

\* content.replace(/<img ([^>]+)>/g, '<img $1 />'): "<img ", then one or more
\* characters other than ">", then ">".
RECURSIVE CloseImgFrom(_, _)
CloseImgFrom(s, i) ==
    IF i > Len(s) THEN <<>>
    ELSE LET gts == {k \in (i + 5)..Len(s) : s[k] = ">"}
         IN  IF MatchAt(s, i, ImgOpen) /\ gts # {} /\ Min(gts) >= i + 6
             THEN ImgOpen \o SubSeq(s, i + 5, Min(gts) - 1) \o SelfClose
                      \o CloseImgFrom(s, Min(gts) + 1)
             ELSE <<s[i]>> \o CloseImgFrom(s, i + 1)

CloseImg(s) == CloseImgFrom(s, 1)

cleanMarkdownForMDX(content) ==
    CloseImg(ReplaceAll(ReplaceAll(RemoveComments(content), BrTag, BrClosed),
                        HrTag, HrClosed))

MdExt == <<".", "m", "d">>
MdxExt == <<".", "m", "d", "x">>

IsMarkupAlways(output) == TRUE

\* output.endsWith('.mdx') || output.endsWith('.md')
IsMarkup(output) == EndsWith(output, MdxExt) \/ EndsWith(output, MdExt)

----------------------------------------------------------------------------
(* Configuration and environment *)

UrlA == "https://raw.example/a"
UrlB == "https://raw.example/b"
RelativeUrl == "/moved"

\* new URL(url) throws for a URL with no scheme.
ValidUrl(url) == url \in {UrlA, UrlB}

OutMd == <<"a", ".", "m", "d">>
OutMdx == <<"b", ".", "m", "d", "x">>
OutJson == <<"c", ".", "j", "s", "o", "n">>
Outputs == {OutMd, OutMdx, OutJson}

\* The source descriptors a configuration is made of; a configuration may
\* name one of them twice, and then two sources share an output path.
SourceSet ==
    { [url |-> UrlA, output |-> OutMd, private |-> FALSE],
      [url |-> UrlB, output |-> OutMdx, private |-> TRUE],
      [url |-> UrlB, output |-> OutJson, private |-> FALSE] }

SourceLists == UNION { [1..n -> SourceSet] : n \in 0..MaxSources }

Tokens == {"", "ghp_t"}

\* Response bodies: one the transformer rewrites, one it leaves alone.
BodyHtml == <<"<", "!", "-", "-", "c", "-", "-", ">", "<", "b", "r", ">">>
BodyPlain == <<"x">>
Bodies == {BodyHtml, BodyPlain}

NoFile == <<"ENOENT">>
OldContent == <<"o", "l", "d">>
FallbackDoc == <<"f", "<", "b", "r", ">">>
Placeholder ==
    <<"#", " ", "Content not available", "\n", "\n",
      "The requested content could not be synchronized.">>

RedirectStatuses == {301, 302, 307, 308}
NoLocation == "undefined"
Locations == {UrlA, UrlB, RelativeUrl, NoLocation}

\* What the network answers a request with: a redirect with or without a
\* Location, a 200 whose body arrives whole or breaks, another status.
Response(status, location, body, bodyOk) ==
    [status |-> status, location |-> location, body |-> body, bodyOk |-> bodyOk]
Responses ==
    {Response(st, loc, <<>>, TRUE) : st \in {302}, loc \in Locations}
        \cup {Response(200, NoLocation, b, ok) : b \in Bodies, ok \in BOOLEAN}
        \cup {Response(404, NoLocation, <<>>, TRUE)}

\* res.statusMessage, the reason phrase that comes with a status.
StatusMessage(status) ==
    CASE status = 200 -> "OK"
      [] status = 204 -> "No Content"
      [] status = 301 -> "Moved Permanently"
      [] status = 302 -> "Found"
      [] status = 303 -> "See Other"
      [] status = 304 -> "Not Modified"
      [] status = 307 -> "Temporary Redirect"
      [] status = 308 -> "Permanent Redirect"
      [] status = 404 -> "Not Found"
      [] OTHER -> "Internal Server Error"

\* The answers to a downloader exercised on its own: every redirect status,
\* to another URL, to a relative one or to none, and statuses that are neither
\* 200 nor a redirect the code follows.
OtherStatuses == {204, 303, 304, 404, 500}
DownloadResponses ==
    {Response(st, loc, <<>>, TRUE) :
        st \in RedirectStatuses, loc \in {UrlB, RelativeUrl, NoLocation}}
        \cup {Response(200, NoLocation, b, ok) : b \in Bodies, ok \in BOOLEAN}
        \cup {Response(st, loc, <<>>, TRUE) : st \in OtherStatuses, loc \in {NoLocation, UrlB}}

MaxRedirectsDefault == 5
TimeoutDefault == 30000

MkdirOutcomes == {"ok", "EEXIST", "EACCES"}
\* A write that fails after the open has truncated the file (ENOSPC).
WriteOutcomes == {"ok", "ENOSPC"}
InitialFiles == [o \in Outputs |-> IF o = OutMdx THEN NoFile ELSE OldContent]

----------------------------------------------------------------------------
(* Errors and records *)

Err(kind, code, detail) ==
    [kind |-> kind, code |-> code, detail |-> detail, statusMessage |-> ""]
\* `HTTP ${res.statusCode}: ${res.statusMessage} for ${url}`
HttpError(statusCode, statusMessage, url) ==
    [Err("HTTP", statusCode, url) EXCEPT !.statusMessage = statusMessage]
NoError == Err("undefined", 0, "")

\* The headers of a request; the empty sequence and "undefined" for a header
\* that is not set.
NoHeaders == [Authorization |-> <<>>, UserAgent |-> "undefined"]

\* A token that is undefined; like the empty string it is falsy.
NoToken == "undefined"
FalsyOnlyUndefined(tok) == tok = NoToken
Falsy(tok) == tok \in {NoToken, ""}

\* An option of DownloadOptions is the empty set when left out, {v} when given.
Omitted == {}
Default(option, value) == IF option = Omitted THEN value ELSE CHOOSE v \in option : TRUE
Options(tok, isPrivate, maxRedirects, timeout) ==
    [token |-> tok, isPrivate |-> isPrivate, maxRedirects |-> maxRedirects,
     timeout |-> timeout]

\* A download: its promise's state, and while a request is in flight (live)
\* the arguments of the _downloadRecursive call that issued it and its headers.
\* stream is the state of the redirecting responses of the earlier hops: "none"
\* when there is no earlier hop, "flowing" once res.resume() was called on the
\* latest and until all of them are consumed to their end, "ended" after.
IdleDl ==
    [state |-> "idle", url |-> "", redirectCount |-> 0,
     content |-> <<>>, statusCode |-> 0, error |-> NoError,
     token |-> NoToken, isPrivate |-> FALSE, maxRedirects |-> 0, timeout |-> 0,
     headers |-> NoHeaders, live |-> FALSE, stream |-> "none"]

NoCall == [url |-> "", options |-> Options(Omitted, Omitted, Omitted, Omitted)]

\* A downloadMultiple call: its arguments, the promises urls.map made (one
\* download each), the requests issued (with the url's index and the number of
\* callbacks delivered before), the indexes in the order their downloads
\* settled, and the promise of Promise.all with the values it has collected.
NoMultiple ==
    [urls |-> <<>>, options |-> Options(Omitted, Omitted, Omitted, Omitted),
     promises |-> <<>>, started |-> <<>>, delivered |-> 0, finished |-> <<>>,
     values |-> <<>>, all |-> "idle", error |-> NoError]
NoSummary == [failed |-> -1, results |-> <<>>, success |-> -1, total |-> -1]
NotExited == {}

----------------------------------------------------------------------------
Init ==
    /\ sources \in SourceLists
    /\ token \in Tokens
    /\ fallbackReadable \in BOOLEAN
    /\ files = InitialFiles
    /\ pc = "start"
    /\ idx = 0
    /\ attempts = <<>>
    /\ results = <<>>
    /\ hist = <<>>
    /\ dl = IdleDl
    /\ summary = NoSummary
    /\ thrown = NoError
    /\ exitCode = NotExited
    /\ exitMsg = ""
    /\ log = [noSources |-> 0, missingToken |-> 0]
    /\ call = NoCall
    /\ requests = <<>>
    /\ responses = <<>>
    /\ mdx = <<>>
    /\ stray = {}
    /\ multi = NoMultiple

----------------------------------------------------------------------------
(* DownloadGithub *)

\* The promise rejects: the caller gets the error and nothing else.
Rejected(error) == [IdleDl EXCEPT !.state = "rejected", !.error = error]

ResolvedWithoutUrl(content, statusCode, finalUrl) ==
    [IdleDl EXCEPT !.state = "resolved", !.content = content,
                   !.statusCode = statusCode]

\* The promise resolves with {content, statusCode, finalUrl}.
Resolved(content, statusCode, finalUrl) ==
    [IdleDl EXCEPT !.state = "resolved", !.content = content,
                   !.statusCode = statusCode, !.url = finalUrl]

HeadersWheneverToken(tok, isPrivate) ==
    IF ~Falsy(tok)
    THEN [Authorization |-> <<"token ", tok>>, UserAgent |-> "Node.js-DownloadGithub"]
    ELSE NoHeaders

\* The headers _downloadRecursive gives its request.
Headers(tok, isPrivate) ==
    IF isPrivate /\ ~Falsy(tok)
    THEN [Authorization |-> <<"token ", tok>>, UserAgent |-> "Node.js-DownloadGithub"]
    ELSE NoHeaders

DownloadRecursiveBoundTooLate(url, tok, isPrivate, maxRedirects, redirectCount, timeout) ==
    IF redirectCount > maxRedirects + 1
    THEN Rejected(Err("Too many redirects (max)", maxRedirects, ""))
    ELSE IF ~ValidUrl(url)
    THEN Rejected(Err("Invalid URL", 0, ""))
    ELSE [IdleDl EXCEPT !.state = "inflight", !.live = TRUE, !.url = url,
                        !.redirectCount = redirectCount,
                        !.token = tok, !.isPrivate = isPrivate,
                        !.maxRedirects = maxRedirects, !.timeout = timeout,
                        !.headers = Headers(tok, isPrivate)]

DownloadRecursiveTimeoutSpent(url, tok, isPrivate, maxRedirects, redirectCount, timeout) ==
    IF redirectCount >= maxRedirects
    THEN Rejected(Err("Too many redirects (max)", maxRedirects, ""))
    ELSE IF ~ValidUrl(url)
    THEN Rejected(Err("Invalid URL", 0, ""))
    ELSE [IdleDl EXCEPT !.state = "inflight", !.live = TRUE, !.url = url,
                        !.redirectCount = redirectCount,
                        !.token = tok, !.isPrivate = isPrivate,
                        !.maxRedirects = maxRedirects,
                        !.timeout = IF redirectCount = 0 THEN timeout ELSE timeout - 1,
                        !.headers = Headers(tok, isPrivate)]

\* _downloadRecursive(url, token, isPrivate, maxRedirects, redirectCount, timeout)
\* up to the https.get of its promise.
DownloadRecursive(url, tok, isPrivate, maxRedirects, redirectCount, timeout) ==
    IF redirectCount >= maxRedirects
    THEN Rejected(Err("Too many redirects (max)", maxRedirects, ""))
    ELSE IF ~ValidUrl(url)
    THEN Rejected(Err("Invalid URL", 0, ""))
    ELSE [IdleDl EXCEPT !.state = "inflight", !.live = TRUE, !.url = url,
                        !.redirectCount = redirectCount,
                        !.token = tok, !.isPrivate = isPrivate,
                        !.maxRedirects = maxRedirects, !.timeout = timeout,
                        !.headers = Headers(tok, isPrivate)]

\* download(url, options) on a downloader constructed with instanceToken.
Download(url, instanceToken, options) ==
    LET tok == Default(options.token, instanceToken)
        isPrivate == Default(options.isPrivate, FALSE)
        maxRedirects == Default(options.maxRedirects, MaxRedirectsDefault)
        timeout == Default(options.timeout, TimeoutDefault)
    IN  IF isPrivate /\ Falsy(tok)
        THEN Rejected(Err("GitHub token is required for private repositories", 0, ""))
        ELSE DownloadRecursive(url, tok, isPrivate, maxRedirects, 0, timeout)

\* res.resume() on a redirecting response, then the request next of the
\* redirect target: the response starts to flow when the request is issued.
Resumed(next) == IF next.live THEN [next EXCEPT !.stream = "flowing"] ELSE next

\* resolve and reject do nothing to a promise that is settled: the outcome of
\* a callback leaves the state, the error and the result of the download d as
\* they are when d was rejected before.
Settling(d, outcome) ==
    IF d.state = "rejected"
    THEN [outcome EXCEPT !.state = "rejected", !.error = d.error,
                         !.content = <<>>, !.statusCode = 0,
                         !.url = IF outcome.live THEN outcome.url ELSE ""]
    ELSE outcome

\* request.on('timeout') or request.on('error') of an earlier hop, whose
\* response is not consumed to its end yet: its promise rejects, and with it
\* the download; the request of the latest hop stays in flight.
RejectedByEarlierHop(d, error) == [d EXCEPT !.state = "rejected", !.error = error]

ResponseCallbackAny2xx(d, status, location, body, bodyOk) ==
    IF status \in RedirectStatuses
    THEN IF location = NoLocation
         THEN Rejected(Err("Redirect without location header", status, ""))
         ELSE Resumed(DownloadRecursive(location, d.token, d.isPrivate, d.maxRedirects,
                                        d.redirectCount + 1, d.timeout))
    ELSE IF status < 200 \/ status > 299
    THEN Rejected(HttpError(status, StatusMessage(status), d.url))
    ELSE IF ~bodyOk
    THEN Rejected(Err("Response error", 0, ""))
    ELSE Resolved(body, status, d.url)

ResponseCallbackAskingAgain(d, status, location, body, bodyOk) ==
    IF status \in RedirectStatuses
    THEN Resumed(DownloadRecursive(IF location = NoLocation THEN d.url ELSE location,
                                   d.token, d.isPrivate, d.maxRedirects,
                                   d.redirectCount + 1, d.timeout))
    ELSE IF status # 200
    THEN Rejected(HttpError(status, StatusMessage(status), d.url))
    ELSE IF ~bodyOk
    THEN Rejected(Err("Response error", 0, ""))
    ELSE Resolved(body, status, d.url)

\* The response callback of https.get, the body of a 200 response read to its
\* end (bodyOk) or broken by a stream error.
ResponseCallback(d, status, location, body, bodyOk) ==
    IF status \in RedirectStatuses
    THEN IF location = NoLocation
         THEN Rejected(Err("Redirect without location header", status, ""))
         ELSE Resumed(DownloadRecursive(location, d.token, d.isPrivate, d.maxRedirects,
                                        d.redirectCount + 1, d.timeout))
    ELSE IF status # 200
    THEN Rejected(HttpError(status, StatusMessage(status), d.url))
    ELSE IF ~bodyOk
    THEN Rejected(Err("Response error", 0, ""))
    ELSE Resolved(body, status, d.url)

----------------------------------------------------------------------------
(* SyncReadme *)

CurrentSource == sources[idx]

\* ensureDirectory(dir): rethrows every mkdir error but EEXIST.
EnsureDirectoryThrows(mkdir) == mkdir # "ok" /\ mkdir # "EEXIST"

\* fs.writeFileSync(outputPath, content): the file afterwards.
WriteFile(fs, output, content, write) ==
    IF write = "ok"
    THEN [fs EXCEPT ![output] = content]
    ELSE [fs EXCEPT ![output] = <<>>]

GetFallbackContentEmpty(readable) == IF readable THEN FallbackDoc ELSE <<>>

\* getFallbackContent()
GetFallbackContent(readable) == IF readable THEN FallbackDoc ELSE Placeholder

SuccessResult(src) ==
    [error |-> NoError, output |-> src.output, success |-> TRUE, url |-> src.url]

FailureResultNoMessage(src, errorMessage) ==
    [error |-> NoError, output |-> src.output, success |-> FALSE, url |-> src.url]

FailureResult(src, errorMessage) ==
    [error |-> errorMessage, output |-> src.output, success |-> FALSE, url |-> src.url]

\* What the history keeps of one call of syncSource: whether the download
\* resolved and with what content, whether the directory creation and the write
\* of that content completed, the failure (the one the catch block caught when
\* an outcome was returned, the one that left syncSource when none was), whether
\* fallback content was written, whether an outcome was returned, and the file
\* left at the output path.
Happened(resolved, content, stored, failure, fallbackWritten) ==
    [resolved |-> resolved, content |-> content, stored |-> stored,
     failure |-> failure, fallbackWritten |-> fallbackWritten,
     returned |-> FALSE, after |-> <<>>]

ReturnLeavingLoopOnFailure(result, fs, h) ==
    /\ files' = fs
    /\ results' = Append(results, result)
    /\ hist' = Append(hist, [h EXCEPT !.returned = TRUE, !.after = fs[result.output]])
    /\ dl' = IdleDl
    /\ IF idx < Len(sources) /\ result.success
       THEN idx' = idx + 1 /\ pc' = "loop"
       ELSE idx' = idx /\ pc' = "summarize"
    /\ UNCHANGED <<apart, config, stray, attempts, summary, thrown, exitCode, exitMsg, log>>

ReturnPrepending(result, fs, h) ==
    /\ files' = fs
    /\ results' = <<result>> \o results
    /\ hist' = Append(hist, [h EXCEPT !.returned = TRUE, !.after = fs[result.output]])
    /\ dl' = IdleDl
    /\ IF idx < Len(sources)
       THEN idx' = idx + 1 /\ pc' = "loop"
       ELSE idx' = idx /\ pc' = "summarize"
    /\ UNCHANGED <<apart, config, stray, attempts, summary, thrown, exitCode, exitMsg, log>>

\* syncSource returns result: syncAll pushes it and goes to the next source, or
\* leaves the loop.
Return(result, fs, h) ==
    /\ files' = fs
    /\ results' = Append(results, result)
    /\ hist' = Append(hist, [h EXCEPT !.returned = TRUE, !.after = fs[result.output]])
    /\ dl' = IdleDl
    /\ IF idx < Len(sources)
       THEN idx' = idx + 1 /\ pc' = "loop"
       ELSE idx' = idx /\ pc' = "summarize"
    /\ UNCHANGED <<apart, config, stray, attempts, summary, thrown, exitCode, exitMsg, log>>

\* An exception leaves syncSource: syncAll rejects and run()'s catch takes it.
Propagate(error, fs, h) ==
    /\ files' = fs
    /\ thrown' = error
    /\ hist' = Append(hist, [h EXCEPT !.failure = error,
                                      !.after = fs[CurrentSource.output]])
    /\ dl' = IdleDl
    /\ pc' = "runcatch"
    /\ UNCHANGED <<apart, config, stray, idx, attempts, results, summary, exitCode, exitMsg, log>>

\* The catch block of syncSource, entered with the error caught, the files as
\* the try block left them, and what the download gave.
CatchBlock(src, errorMessage, fs, resolved, content) ==
    \E mkdir \in MkdirOutcomes, write \in WriteOutcomes :
        LET fallbackContent == GetFallbackContent(fallbackReadable)
            h == Happened(resolved, content, FALSE, errorMessage,
                          ~EnsureDirectoryThrows(mkdir) /\ write = "ok")
        IN  IF EnsureDirectoryThrows(mkdir)
            THEN Propagate(Err("mkdir", 0, mkdir), fs, h)
            ELSE IF write # "ok"
            THEN Propagate(Err("write", 0, write),
                           WriteFile(fs, src.output, fallbackContent, write), h)
            ELSE Return(FailureResult(src, errorMessage),
                        WriteFile(fs, src.output, fallbackContent, write), h)

ContentForRaw(output, fetched) == fetched

\* The content syncSource writes for a resolved download.
ContentFor(output, fetched) ==
    IF IsMarkup(output) THEN cleanMarkdownForMDX(fetched) ELSE fetched

\* run() up to its await of syncAll(), and syncAll() up to its loop.
Run ==
    /\ pc = "start"
    /\ IF Len(sources) = 0
       THEN /\ log' = [log EXCEPT !.noSources = @ + 1]
            /\ summary' = [failed |-> 0, results |-> <<>>, success |-> 0, total |-> 0]
            /\ pc' = "run"
            /\ idx' = idx
       ELSE /\ log' = IF (\E k \in 1..Len(sources) : sources[k].private) /\ token = ""
                      THEN [log EXCEPT !.missingToken = @ + 1]
                      ELSE log
            /\ summary' = summary
            /\ pc' = "loop"
            /\ idx' = 1
    /\ UNCHANGED <<apart, config, stray, files, attempts, results, hist, dl, thrown, exitCode, exitMsg>>

\* One iteration of syncAll's loop calls syncSource, which calls download.
BeginSource ==
    /\ pc = "loop"
    /\ attempts' = Append(attempts, idx)
    /\ dl' = Download(CurrentSource.url, token,
                       Options(Omitted, {CurrentSource.private}, Omitted, Omitted))
    /\ pc' = IF dl'.state = "inflight" THEN "fetching" ELSE "settled"
    /\ UNCHANGED <<apart, config, stray, files, idx, results, hist, summary, thrown, exitCode, exitMsg, log>>

Settle(d) ==
    /\ dl' = d
    /\ pc' = IF d.state = "inflight" THEN "fetching" ELSE "settled"
    /\ UNCHANGED <<apart, config, stray, files, idx, attempts, results, hist, summary, thrown, exitCode, exitMsg, log>>

OnResponse ==
    /\ pc = "fetching"
    /\ \E r \in Responses :
           Settle(ResponseCallback(dl, r.status, r.location, r.body, r.bodyOk))

\* request.on('error')
OnRequestError ==
    /\ pc = "fetching"
    /\ Settle(Rejected(Err("Request error", 0, "")))

\* request.on('timeout')
OnTimeout ==
    /\ pc = "fetching"
    /\ Settle(Rejected(Err("Request timeout after ms", dl.timeout, "")))

\* request.on('timeout') or request.on('error') of an earlier hop of the
\* current source, whose redirecting response is not consumed to its end: the
\* download rejects while the request of the latest hop stays in flight.
OnEarlierHopEvent ==
    /\ pc = "fetching"
    /\ dl.stream = "flowing"
    /\ \E error \in {Err("Request timeout after ms", dl.timeout, ""),
                      Err("Request error", 0, "")} :
           dl' = Rejected(error)
    /\ stray' = stray \cup {idx}
    /\ pc' = "settled"
    /\ UNCHANGED <<apart, config, files, idx, attempts, results, hist, summary, thrown,
                   exitCode, exitMsg, log>>

\* The requests left in flight for a source come to their end: a response
\* that is no redirect, an error, a timeout, the bound on redirects.
StrayRequestEnds ==
    /\ \E i \in stray : stray' = stray \ {i}
    /\ UNCHANGED <<apart, config, files, pc, idx, attempts, results, hist, dl, summary,
                   thrown, exitCode, exitMsg, log>>

\* syncSource after its download resolved: the rest of the try block, and the
\* catch block when the directory or the write fails.
SyncSourceResolved ==
    /\ pc = "settled"
    /\ dl.state = "resolved"
    /\ \E mkdir \in MkdirOutcomes, write \in WriteOutcomes :
        LET src == CurrentSource
            content == ContentFor(src.output, dl.content)
        IN  IF EnsureDirectoryThrows(mkdir)
            THEN CatchBlock(src, Err("mkdir", 0, mkdir), files, TRUE, dl.content)
            ELSE IF write # "ok"
            THEN CatchBlock(src, Err("write", 0, write),
                            WriteFile(files, src.output, content, write),
                            TRUE, dl.content)
            ELSE Return(SuccessResult(src),
                        WriteFile(files, src.output, content, write),
                        Happened(TRUE, dl.content, TRUE, NoError, FALSE))

\* syncSource after its download rejected: the catch block.
SyncSourceRejected ==
    /\ pc = "settled"
    /\ dl.state = "rejected"
    /\ CatchBlock(CurrentSource, dl.error, files, FALSE, <<>>)

CountIgnoringFlag(rs, wanted) == Len(rs)

\* results.filter((r) => r.success).length and results.filter((r) => !r.success).length
Count(rs, wanted) == Cardinality({k \in 1..Len(rs) : rs[k].success = wanted})

SummaryOfSucceeded(rs, srcs) ==
    [failed |-> Count(rs, FALSE), results |-> rs, success |-> Count(rs, TRUE),
     total |-> Count(rs, TRUE)]

\* The summary syncAll builds from its results and its source list.
SummaryOf(rs, srcs) ==
    [failed |-> Count(rs, FALSE), results |-> rs, success |-> Count(rs, TRUE),
     total |-> Len(srcs)]

\* failedCount > 0 with successCount === 0: syncAll ends in this.error.
AllSourcesFailed(successCount, failedCount) == failedCount > 0 /\ successCount = 0

\* syncAll after its loop.
Summarize ==
    /\ pc = "summarize"
    /\ IF AllSourcesFailed(Count(results, TRUE), Count(results, FALSE))
       THEN /\ thrown' = Err("All sources failed to synchronize", 0, "")
            /\ pc' = "runcatch"
            /\ summary' = summary
       ELSE /\ summary' = SummaryOf(results, sources)
            /\ pc' = "run"
            /\ thrown' = thrown
    /\ UNCHANGED <<apart, config, stray, files, idx, attempts, results, hist, dl, exitCode, exitMsg, log>>

AnyTaskFailed(s) == s.failed > 0

\* summary.failed === summary.total: run() ends in this.error.
AllTasksFailed(s) == s.failed = s.total

\* run() after syncAll() returned its summary.
RunExit ==
    /\ pc = "run"
    /\ IF AllTasksFailed(summary)
       THEN /\ thrown' = Err("All synchronization tasks failed", 0, "")
            /\ pc' = "runcatch"
            /\ exitCode' = exitCode
       ELSE /\ exitCode' = {0}
            /\ pc' = "exited"
            /\ thrown' = thrown
    /\ UNCHANGED <<apart, config, stray, files, idx, attempts, results, hist, dl, summary, exitMsg, log>>

\* The catch block of run().
RunCatch ==
    /\ pc = "runcatch"
    /\ exitCode' = {1}
    /\ exitMsg' = thrown.kind
    /\ pc' = "exited"
    /\ UNCHANGED <<apart, config, stray, files, idx, attempts, results, hist, dl, summary, thrown, log>>

Next ==
    \/ Run
    \/ BeginSource
    \/ OnResponse
    \/ OnRequestError
    \/ OnTimeout
    \/ OnEarlierHopEvent
    \/ StrayRequestEnds
    \/ SyncSourceResolved
    \/ SyncSourceRejected
    \/ Summarize
    \/ RunExit
    \/ RunCatch

Spec == Init /\ [][Next]_vars

----------------------------------------------------------------------------
(* DownloadGithub exercised on its own: one download(url, options) call on a *)
(* downloader constructed with any token, against any server.               *)

\* No run of the sync-readme command: nothing configured, nothing done.
NoRun ==
    /\ sources = <<>>
    /\ fallbackReadable = FALSE
    /\ files = InitialFiles
    /\ idx = 0
    /\ attempts = <<>>
    /\ results = <<>>
    /\ hist = <<>>
    /\ summary = NoSummary
    /\ thrown = NoError
    /\ exitCode = NotExited
    /\ exitMsg = ""
    /\ log = [noSources |-> 0, missingToken |-> 0]
    /\ stray = {}

DownloaderTokens == Tokens \cup {NoToken}
\* Every combination of options with a maxRedirects given, and the options of
\* a public and of a private call with everything else left to the defaults.
OptionSets ==
    { Options(tok, isPrivate, {maxRedirects}, timeout) :
        tok \in {Omitted, {""}, {"ghp_o"}},
        isPrivate \in {Omitted, {TRUE}, {FALSE}},
        maxRedirects \in 0..MaxRedirectsOption,
        timeout \in {Omitted, {1000}} }
      \cup { Options(Omitted, isPrivate, Omitted, Omitted) : isPrivate \in {Omitted, {TRUE}} }
Calls == { [url |-> url, options |-> o] : url \in {UrlA, RelativeUrl}, o \in OptionSets }

\* What https.get sends for the download d when d has a request in flight,
\* with the state of the earlier responses and of the promise at that time.
RequestOf(d) ==
    [url |-> d.url, headers |-> d.headers, timeout |-> d.timeout,
     stream |-> d.stream, settled |-> d.state # "inflight"]
Issued(sent, d) == IF d.live THEN Append(sent, RequestOf(d)) ELSE sent

DownloadInit ==
    /\ call \in Calls
    /\ token \in DownloaderTokens
    /\ requests = <<>>
    /\ responses = <<>>
    /\ dl = IdleDl
    /\ pc = "start"
    /\ NoRun
    /\ mdx = <<>>
    /\ multi = NoMultiple

\* What a download leaves alone.
beside == <<sources, token, fallbackReadable, files, idx, attempts, results, hist,
            summary, thrown, exitCode, exitMsg, log, stray, call, mdx, multi>>

\* A response as the log keeps it, with whether the download was pending when
\* it came.
Received(r, d) ==
    [status |-> r.status, location |-> r.location, body |-> r.body,
     bodyOk |-> r.bodyOk, pending |-> d.state = "inflight"]

DownloadSettle(d) ==
    /\ dl' = d
    /\ requests' = Issued(requests, d)
    /\ pc' = IF d.live THEN "fetching" ELSE "settled"
    /\ UNCHANGED beside

\* download(call.url, call.options)
DownloadCall ==
    /\ pc = "start"
    /\ responses' = responses
    /\ DownloadSettle(Download(call.url, token, call.options))

\* The response callback of the request in flight.
DownloadResponse ==
    /\ pc = "fetching"
    /\ \E r \in DownloadResponses :
           /\ responses' = Append(responses, Received(r, dl))
           /\ DownloadSettle(Settling(dl, ResponseCallback(dl, r.status, r.location,
                                                           r.body, r.bodyOk)))

\* request.on('error') of the request in flight.
DownloadRequestError ==
    /\ pc = "fetching"
    /\ responses' = responses
    /\ DownloadSettle(Settling(dl, Rejected(Err("Request error", 0, ""))))

\* request.on('timeout') of the request in flight.
DownloadTimeout ==
    /\ pc = "fetching"
    /\ responses' = responses
    /\ DownloadSettle(Settling(dl, Rejected(Err("Request timeout after ms",
                                                dl.timeout, ""))))

\* The redirecting responses of the earlier hops are consumed to their end.
DownloadDrainEnd ==
    /\ pc = "fetching"
    /\ dl.stream = "flowing"
    /\ dl' = [dl EXCEPT !.stream = "ended"]
    /\ UNCHANGED <<beside, pc, requests, responses>>

\* request.on('timeout') or request.on('error') of an earlier hop while the
\* download is pending.
DownloadEarlierHopEvent ==
    /\ pc = "fetching"
    /\ dl.state = "inflight"
    /\ dl.stream = "flowing"
    /\ \E error \in {Err("Request timeout after ms", dl.timeout, ""),
                      Err("Request error", 0, "")} :
           dl' = RejectedByEarlierHop(dl, error)
    /\ UNCHANGED <<beside, pc, requests, responses>>

DownloadNext ==
    \/ DownloadCall
    \/ DownloadResponse
    \/ DownloadRequestError
    \/ DownloadTimeout
    \/ DownloadDrainEnd
    \/ DownloadEarlierHopEvent

DownloadSpec == DownloadInit /\ [][DownloadNext]_vars

----------------------------------------------------------------------------
(* cleanMarkdownForMDX applied to a text, and again to its own result.       *)

ImgTag == <<"<", "i", "m", "g", " ", "a", ">">>
ImgSelfClosed == <<"<", "i", "m", "g", " ", "a", " ", "/", ">">>
EmptyComment == CommentOpen \o CommentClose
CommentRest == Tail(CommentOpen) \o CommentClose

\* The pieces the texts are made of: the tags and delimiters the regular
\* expressions look for, whole and in parts, and plain text.
Fragments ==
    {CommentOpen, CommentClose, BrTag, HrTag, ImgTag, ImgOpen,
     <<"<">>, <<">">>, <<"x">>, <<"/">>,
     EmptyComment, CommentRest, ImgSelfClosed}

RECURSIVE Concat(_)
Concat(pieces) ==
    IF pieces = <<>> THEN <<>> ELSE Head(pieces) \o Concat(Tail(pieces))

Texts == { Concat(pieces) : pieces \in UNION { [1..n -> Fragments] : n \in 0..MaxFragments } }

TransformInit ==
    /\ mdx \in { <<x>> : x \in Texts }
    /\ call = NoCall
    /\ token = ""
    /\ requests = <<>>
    /\ responses = <<>>
    /\ dl = IdleDl
    /\ pc = "start"
    /\ NoRun
    /\ multi = NoMultiple

\* One more pass: cleanMarkdownForMDX(content) on the latest text.
Transform ==
    /\ Len(mdx) <= MaxPasses
    /\ mdx' = Append(mdx, cleanMarkdownForMDX(mdx[Len(mdx)]))
    /\ UNCHANGED <<sources, token, fallbackReadable, files, pc, idx, attempts, results,
                   hist, dl, summary, thrown, exitCode, exitMsg, log, stray, call,
                   requests, responses, multi>>

TransformNext == Transform

TransformSpec == TransformInit /\ [][TransformNext]_vars

----------------------------------------------------------------------------
(* downloadMultiple(urls, options) on a downloader constructed with any     *)
(* token, its downloads answered in any order.                               *)

MultipleUrls == UNION { [1..n -> {UrlA, UrlB, RelativeUrl}] : n \in 0..MaxUrls }
MultipleOptions == { Options(Omitted, isPrivate, {2}, Omitted) : isPrivate \in {Omitted, {TRUE}} }
MultipleResponses ==
    {Response(302, UrlB, <<>>, TRUE), Response(404, NoLocation, <<>>, TRUE)}
        \cup {Response(200, NoLocation, b, TRUE) : b \in Bodies}

\* Everything but the downloadMultiple call and its position.
around == <<sources, token, fallbackReadable, files, idx, attempts, results, hist, dl,
            summary, thrown, exitCode, exitMsg, log, stray, call, requests, responses,
            mdx>>

\* The DownloadResult a resolved download gives, and the slot of a value that
\* is not there yet.
Result(d) == [content |-> d.content, statusCode |-> d.statusCode, finalUrl |-> d.url]
NoValue == [content |-> <<>>, statusCode |-> 0, finalUrl |-> ""]

\* The request a download has just issued, as the call's log keeps it.
StartedEntry(k, d, delivered) == [index |-> k, url |-> d.url, delivered |-> delivered]

StoreValueInCompletionOrder(values, k, position, result) ==
    [values EXCEPT ![position] = result]

\* Promise.all keeps the value of its k-th promise at index k.
StoreValue(values, k, position, result) == [values EXCEPT ![k] = result]

\* Promise.all's reaction to its k-th promise settling, from before to after:
\* the first rejection rejects it, the last value resolves it.
PromiseAll(m, k, before, after) ==
    IF before.state # "inflight" \/ after.state = "inflight"
    THEN m
    ELSE LET finished == Append(m.finished, k)
             others == \A j \in 1..Len(m.promises) :
                           j # k => m.promises[j].state = "resolved"
         IN  [m EXCEPT
                !.finished = finished,
                !.values = IF after.state = "resolved"
                           THEN StoreValue(@, k, Len(finished), Result(after))
                           ELSE @,
                !.all = IF @ # "pending" THEN @
                        ELSE IF after.state = "rejected" THEN "rejected"
                        ELSE IF others THEN "resolved"
                        ELSE "pending",
                !.error = IF m.all = "pending" /\ after.state = "rejected"
                          THEN after.error
                          ELSE @]

\* downloadMultiple(urls, options): urls.map starts one download per url, in
\* order and in one turn, and Promise.all is given their promises.
DownloadMultiple(urls, instanceToken, options) ==
    LET indexes == [k \in 1..Len(urls) |-> k]
        promises == [k \in 1..Len(urls) |-> Download(urls[k], instanceToken, options)]
        live == SelectSeq(indexes, LAMBDA k : promises[k].live)
        rejected == SelectSeq(indexes, LAMBDA k : promises[k].state = "rejected")
    IN  [urls |-> urls, options |-> options, promises |-> promises,
         started |-> [j \in 1..Len(live) |-> StartedEntry(live[j], promises[live[j]], 0)],
         delivered |-> 0,
         finished |-> rejected,
         values |-> [k \in 1..Len(urls) |-> NoValue],
         all |-> IF rejected # <<>> THEN "rejected"
                 ELSE IF urls = <<>> THEN "resolved"
                 ELSE "pending",
         error |-> IF rejected # <<>> THEN promises[rejected[1]].error ELSE NoError]

MultipleInit ==
    /\ multi \in { [NoMultiple EXCEPT !.urls = urls, !.options = o] :
                     urls \in MultipleUrls, o \in MultipleOptions }
    /\ token \in Tokens
    /\ call = NoCall
    /\ requests = <<>>
    /\ responses = <<>>
    /\ dl = IdleDl
    /\ pc = "start"
    /\ NoRun
    /\ mdx = <<>>

MultipleCall ==
    /\ pc = "start"
    /\ multi' = DownloadMultiple(multi.urls, token, multi.options)
    /\ pc' = IF \E k \in 1..Len(multi'.promises) : multi'.promises[k].live
             THEN "fetching" ELSE "settled"
    /\ UNCHANGED around

\* A callback of the k-th download is delivered and leaves it as d, with a
\* new request issued or not.
MultipleDeliver(k, d, newRequest) ==
    LET delivered == multi.delivered + 1
        m == [multi EXCEPT !.promises[k] = d,
                           !.delivered = delivered,
                           !.started = IF newRequest
                                       THEN Append(@, StartedEntry(k, d, delivered))
                                       ELSE @]
    IN  /\ multi' = PromiseAll(m, k, multi.promises[k], d)
        /\ pc' = IF \E j \in 1..Len(m.promises) : m.promises[j].live
                 THEN "fetching" ELSE "settled"
        /\ UNCHANGED around

\* The response callback of the request in flight of one of the downloads.
MultipleResponse ==
    /\ pc = "fetching"
    /\ \E k \in 1..Len(multi.promises), r \in MultipleResponses :
           LET d == multi.promises[k]
               after == Settling(d, ResponseCallback(d, r.status, r.location,
                                                     r.body, r.bodyOk))
           IN  d.live /\ MultipleDeliver(k, after, after.live)

\* request.on('error') of the request in flight of one of the downloads.
MultipleRequestError ==
    /\ pc = "fetching"
    /\ \E k \in 1..Len(multi.promises) :
           LET d == multi.promises[k]
           IN  d.live /\ MultipleDeliver(k, Settling(d, Rejected(Err("Request error", 0, ""))),
                                         FALSE)

\* request.on('timeout') of the request in flight of one of the downloads.
MultipleTimeout ==
    /\ pc = "fetching"
    /\ \E k \in 1..Len(multi.promises) :
           LET d == multi.promises[k]
           IN  d.live /\ MultipleDeliver(k, Settling(d, Rejected(Err("Request timeout after ms",
                                                                     d.timeout, ""))),
                                         FALSE)

\* request.on('timeout') or request.on('error') of an earlier hop of one of
\* the downloads while it is pending.
MultipleEarlierHopEvent ==
    /\ pc = "fetching"
    /\ \E k \in 1..Len(multi.promises) :
           LET d == multi.promises[k]
           IN  /\ d.live
               /\ d.state = "inflight"
               /\ d.stream = "flowing"
               /\ \E error \in {Err("Request timeout after ms", d.timeout, ""),
                                 Err("Request error", 0, "")} :
                      MultipleDeliver(k, RejectedByEarlierHop(d, error), FALSE)

MultipleNext ==
    \/ MultipleCall
    \/ MultipleResponse
    \/ MultipleRequestError
    \/ MultipleTimeout
    \/ MultipleEarlierHopEvent

MultipleSpec == MultipleInit /\ [][MultipleNext]_vars

----------------------------------------------------------------------------
(* Properties *)

InOrder(n) == [k \in 1..n |-> k]
FallbackExpected == IF fallbackReadable THEN FallbackDoc ELSE Placeholder
Expected(output, fetched) ==
    IF EndsWith(output, MdExt) \/ EndsWith(output, MdxExt)
    THEN cleanMarkdownForMDX(fetched)
    ELSE fetched

\* C1: whenever syncAll has returned a summary, the summary holds one outcome
\* per configured source and its total is the number of configured sources.
C1_ResultsMatchSources ==
    summary # NoSummary =>
        /\ Len(summary.results) = Len(sources)
        /\ summary.total = Len(sources)
        /\ \A k \in 1..Len(sources) :
               /\ summary.results[k].url = sources[k].url
               /\ summary.results[k].output = sources[k].output

C1_Witness ==
    /\ summary # NoSummary
    /\ Len(sources) = 2
    /\ Len(summary.results) = 2
    /\ ~hist[1].resolved
    /\ hist[2].resolved

\* C2: in every summary syncAll returns, success is the number of outcomes with
\* success = TRUE, failed the number with success = FALSE, and they add up to total.
C2_CountsAddUp ==
    summary # NoSummary =>
        /\ summary.success =
               Cardinality({k \in 1..Len(summary.results) : summary.results[k].success})
        /\ summary.failed =
               Cardinality({k \in 1..Len(summary.results) : ~summary.results[k].success})
        /\ summary.success + summary.failed = summary.total

C2_Witness ==
    /\ summary # NoSummary
    /\ summary.success = 1
    /\ summary.failed = 1
    /\ summary.total = 2

\* C3: an outcome has success = TRUE exactly when the download resolved and the
\* directory creation and the write of the fetched content completed, and then
\* it carries no error; every other outcome was returned after fallback content
\* was written to the same output path, and carries the message of the original
\* failure.
C3_SuccessIffFetchedAndWritten ==
    \A k \in 1..Len(results) :
        /\ results[k].success <=> (hist[k].resolved /\ hist[k].stored)
        /\ results[k].success => results[k].error = NoError
        /\ ~results[k].success =>
               /\ hist[k].fallbackWritten
               /\ hist[k].after = FallbackExpected
               /\ results[k].error = hist[k].failure
               /\ results[k].error # NoError

C3_Witness ==
    \E k \in 1..Len(results) :
        /\ ~results[k].success
        /\ hist[k].resolved
        /\ results[k].error = Err("write", 0, "ENOSPC")
        /\ hist[k].after = FallbackExpected

\* C4: whatever fetches fail, the run ends only after syncSource was called for
\* every configured source, in order.
C4_EverySourceAttempted ==
    pc \in {"run", "runcatch", "exited"} => attempts = InOrder(Len(sources))

\* C5: every call of syncSource ends with an outcome; no exception of its
\* fetch or of its writes leaves it.
C5_NoExceptionLeavesSyncSource ==
    \A k \in 1..Len(hist) : hist[k].returned

C8_NoSourcesExitsZero ==
    (Len(sources) = 0 /\ pc = "exited") =>
        /\ log.noSources = 1
        /\ results = <<>>
        /\ exitCode = {0}

\* C9: when at least one source is configured and every source failed, the
\* process exits with code 1, and the all-sources-failed error is raised only
\* after every source was attempted and every output file holds fallback content.
C9_AllFailedExitsOne ==
    /\ (/\ pc = "exited"
        /\ Len(sources) > 0
        /\ Len(results) = Len(sources)
        /\ \A k \in 1..Len(results) : ~results[k].success) => exitCode = {1}
    /\ thrown = Err("All sources failed to synchronize", 0, "") =>
           /\ Len(sources) > 0
           /\ attempts = InOrder(Len(sources))
           /\ Len(results) = Len(sources)
           /\ \A k \in 1..Len(sources) : files[sources[k].output] = FallbackExpected

C9_Witness ==
    /\ pc = "exited"
    /\ Len(sources) = 2
    /\ exitCode = {1}
    /\ exitMsg = "All sources failed to synchronize"

\* C10: when every configured source has its outcome and at least one of them
\* succeeded (failed < total), the process exits with code 0.
C10_PartialSuccessExitsZero ==
    (/\ pc = "exited"
     /\ Len(results) = Len(sources)
     /\ \E k \in 1..Len(results) : results[k].success) =>
        /\ summary.failed < summary.total
        /\ exitCode = {0}

C10_Witness ==
    /\ pc = "exited"
    /\ exitCode = {0}
    /\ \E k \in 1..Len(results) : results[k].success
    /\ \E k \in 1..Len(results) : ~results[k].success

\* C11: a download call with isPrivate true, no token (or the empty string) in
\* its options and no token (or the empty string) on the downloader is rejected
\* with the token-required error, and no request is ever issued for it.
C11_PrivateWithoutTokenFailsBeforeRequest ==
    (/\ pc # "start"
     /\ call.options.isPrivate = {TRUE}
     /\ call.options.token \in {Omitted, {""}}
     /\ token \in {NoToken, ""}) =>
        /\ pc = "settled"
        /\ dl.state = "rejected"
        /\ dl.error.kind = "GitHub token is required for private repositories"
        /\ requests = <<>>

C11_Witness ==
    /\ pc = "settled"
    /\ call.url = UrlA
    /\ call.options.isPrivate = {TRUE}
    /\ call.options.token = {""}
    /\ token = NoToken
    /\ dl.state = "rejected"
    /\ requests = <<>>

\* C12: every request of a download call for a private source, on every hop,
\* carries Authorization "token <token>" with the token of the call and the
\* User-Agent; no request of a call for a public source carries either header,
\* whatever token is configured.
C12_AuthorizationIffPrivate ==
    \A k \in 1..Len(requests) :
        IF call.options.isPrivate = {TRUE}
        THEN /\ requests[k].headers.Authorization =
                    <<"token ", IF call.options.token = Omitted
                                THEN token
                                ELSE CHOOSE t \in call.options.token : TRUE>>
             /\ requests[k].headers.UserAgent = "Node.js-DownloadGithub"
        ELSE requests[k].headers = NoHeaders

C12_Witness ==
    /\ Len(requests) = 3
    /\ call.options.isPrivate = {TRUE}
    /\ call.options.token = Omitted
    /\ token = "ghp_t"
    /\ requests[1].url = UrlA
    /\ requests[3].url = UrlB
    /\ requests[3].headers.Authorization = <<"token ", "ghp_t">>

\* C13: a download that has received redirect responses (301, 302, 307, 308
\* with a Location) fails with too-many-redirects only when it has received
\* more than maxRedirects of them, so that a chain of at most maxRedirects
\* redirects is followed to its end.
C13_FollowsUpToMaxRedirects ==
    (/\ dl.state = "rejected"
     /\ dl.error.kind = "Too many redirects (max)"
     /\ Len(responses) > 0) =>
        Cardinality({k \in 1..Len(responses) :
                        /\ responses[k].status \in {301, 302, 307, 308}
                        /\ responses[k].location # NoLocation})
            > (IF call.options.maxRedirects = Omitted
               THEN 5
               ELSE CHOOSE n \in call.options.maxRedirects : TRUE)

C15_OnlyStatus200Resolves ==
    /\ dl.state = "resolved" => responses[Len(responses)].status = 200
    /\ \A k \in 1..Len(responses) :
           responses[k].status \notin {200, 301, 302, 307, 308} =>
               /\ k = Len(responses)
               /\ Len(requests) = k
               /\ pc = "settled"
               /\ dl.state = "rejected"
               /\ responses[k].pending =>
                      dl = Rejected(HttpError(responses[k].status,
                                             StatusMessage(responses[k].status),
                                             requests[k].url))

C15_Witness ==
    /\ Len(responses) = 2
    /\ Len(requests) = 2
    /\ responses[2].status = 303
    /\ responses[2].location = UrlB
    /\ responses[2].pending
    /\ dl.state = "rejected"
    /\ dl.error.code = 303
    /\ dl.error.statusMessage = "See Other"
    /\ dl.error.detail = UrlB

\* C16: cleanMarkdownForMDX is idempotent: a second pass over the result of a
\* first pass changes nothing.
C16_Idempotent ==
    Len(mdx) >= 3 => mdx[3] = mdx[2]

\* C17: what syncSource stores of fetched content is cleanMarkdownForMDX of it
\* when the output path ends in .md or .mdx, and the fetched content itself,
\* unchanged, for every other output path, whatever markup it holds.
C17_TransformedExactlyWhenMarkup ==
    \A k \in 1..Len(hist) :
        hist[k].stored =>
            /\ sources[k].output \in {OutMd, OutMdx} =>
                   hist[k].after = cleanMarkdownForMDX(hist[k].content)
            /\ sources[k].output \notin {OutMd, OutMdx} =>
                   hist[k].after = hist[k].content

C17_Witness ==
    /\ Len(hist) = 2
    /\ sources[1].output = OutMd
    /\ sources[2].output = OutJson
    /\ hist[1].stored /\ hist[1].content = BodyHtml /\ hist[1].after = BrClosed
    /\ hist[2].stored /\ hist[2].content = BodyHtml /\ hist[2].after = BodyHtml

\* C18: the k-th outcome syncAll holds, and the k-th outcome of the summary it
\* returns, is the outcome of the k-th configured source: it has that source's
\* url and output and the success of the k-th call of syncSource, which was the
\* call for source k, whichever sources fail.
C18_OutcomesInSourceOrder ==
    /\ \A k \in 1..Len(results) :
           /\ results[k].url = sources[k].url
           /\ results[k].output = sources[k].output
           /\ attempts[k] = k
           /\ results[k].success = (hist[k].resolved /\ hist[k].stored)
    /\ summary # NoSummary => summary.results = results

C18_Witness ==
    /\ summary # NoSummary
    /\ Len(summary.results) = 2
    /\ sources[1].url = UrlA /\ sources[2].url = UrlB
    /\ summary.results[1].url = UrlA /\ summary.results[1].success
    /\ summary.results[2].url = UrlB /\ ~summary.results[2].success
    /\ summary.results[2].error.kind = "Request timeout after ms"

\* C19: sources are processed one after the other: syncSource is called for
\* source 1, 2, ... in turn, at most one call is unfinished, every source
\* before the latest called for has had its output file written and its
\* outcome recorded, and while the download of a source is in progress no
\* request of another source is in flight.
C19_StrictlySequential ==
    /\ Len(attempts) \in {Len(hist), Len(hist) + 1}
    /\ \A k \in 1..Len(attempts) : attempts[k] = k
    /\ \A k \in 1..(Len(attempts) - 1) :
           /\ hist[k].returned
           /\ hist[k].stored \/ hist[k].fallbackWritten
           /\ Len(results) >= k
           /\ results[k].output = sources[k].output
    /\ dl.state # "idle" =>
           /\ Len(attempts) = Len(hist) + 1
           /\ idx = Len(attempts)
           /\ Len(results) = idx - 1
    /\ pc = "fetching" => stray \subseteq {idx}

\* C20: a run that ends because the cache directory cannot be created ends
\* before any source is attempted: no download request was issued, so none was
\* answered.
C20_ConfigErrorAbortsBeforeSources ==
    thrown.kind = "mkdir" => \A k \in 1..Len(hist) : ~hist[k].resolved

\* The maxRedirects and the timeout the call is made with.
MaxRedirectsOfCall == Default(call.options.maxRedirects, MaxRedirectsDefault)
TimeoutOfCall == Default(call.options.timeout, TimeoutDefault)

\* The k-th response is a redirect that names its target.
RedirectsOn(k) ==
    /\ responses[k].status \in RedirectStatuses
    /\ responses[k].location # NoLocation

\* C21: one download call issues at most maxRedirects + 1 requests; when the
\* bound on redirects is hit the download is rejected with the too-many-redirects
\* error and no request is issued for the Location of the last redirect; every
\* request after the first is the request for the Location of the redirect
\* answered just before it, so a request that failed, or was answered by
\* anything but a redirect with a Location, is followed by no request.
C21_NoRequestBeyondBoundNoRetry ==
    /\ Len(requests) <= MaxRedirectsOfCall + 1
    /\ Len(requests) \in {Len(responses), Len(responses) + 1}
    /\ \A k \in 2..Len(requests) :
           /\ RedirectsOn(k - 1)
           /\ requests[k].url = responses[k - 1].location
    /\ dl.error.kind = "Too many redirects (max)" =>
           /\ dl = Rejected(Err("Too many redirects (max)", MaxRedirectsOfCall, ""))
           /\ pc = "settled"
           /\ Len(requests) = Len(responses)
    /\ (pc = "settled" /\ Len(responses) > 0 /\ Len(requests) = Len(responses)
         /\ RedirectsOn(Len(responses)) /\ ValidUrl(responses[Len(responses)].location)
         /\ responses[Len(responses)].pending) =>
           dl = Rejected(Err("Too many redirects (max)", MaxRedirectsOfCall, ""))
    /\ pc = "settled" => ~dl.live

C21_Witness ==
    /\ pc = "settled"
    /\ call.options.maxRedirects = {2}
    /\ Len(requests) = 2
    /\ Len(responses) = 2
    /\ RedirectsOn(2)
    /\ dl.error.kind = "Too many redirects (max)"

\* C22: a redirect response (301, 302, 307, 308) without a Location header is
\* the last response of the download and no request follows it; the download
\* is rejected, and with the malformed-redirect error when it was pending as
\* the response came.
C22_RedirectWithoutLocationRejects ==
    \A k \in 1..Len(responses) :
        (responses[k].status \in RedirectStatuses /\ responses[k].location = NoLocation) =>
            /\ k = Len(responses)
            /\ Len(requests) = k
            /\ pc = "settled"
            /\ dl.state = "rejected"
            /\ ~dl.live
            /\ responses[k].pending =>
                   dl = Rejected(Err("Redirect without location header",
                                     responses[k].status, ""))

C22_Witness ==
    /\ Len(responses) = 2
    /\ responses[2].status = 307
    /\ responses[2].location = NoLocation
    /\ responses[2].pending
    /\ dl.error.kind = "Redirect without location header"
    /\ Len(requests) = 2

\* C23: every request to a redirect target is issued when the redirecting
\* responses before it have been consumed to their end.
C23_DrainedBeforeNextRequest ==
    \A k \in 2..Len(requests) : requests[k].stream = "ended"

\* C24: every request of a redirect chain is given the whole timeout of the
\* call, whatever the hops before it took; when the timeout of the request in
\* flight fires on a pending download, the download is rejected with the
\* timeout error, its request is gone and no request follows; a rejected
\* download never resolves afterwards.
C24_FullTimeoutEachHop ==
    [][ /\ \A k \in 1..Len(requests') : requests'[k].timeout = TimeoutOfCall
        /\ (dl.state = "inflight" /\ pc' = "settled"
             /\ dl'.error.kind = "Request timeout after ms") =>
               /\ dl' = Rejected(Err("Request timeout after ms", TimeoutOfCall, ""))
               /\ ~dl'.live
               /\ requests' = requests
        /\ dl.state = "rejected" => dl'.state = "rejected" ]_vars

C24_Witness ==
    /\ pc = "settled"
    /\ call.options.timeout = {1000}
    /\ Len(requests) = 2
    /\ requests[2].timeout = 1000
    /\ Len(responses) = 1
    /\ dl = Rejected(Err("Request timeout after ms", 1000, ""))

\* C29: no request is issued on behalf of a download that has settled: every
\* request is issued while its download is pending.
C29_NoRequestAfterSettled ==
    \A k \in 1..Len(requests) : ~requests[k].settled

\* An HTML comment in a text: "<!--" followed later by "-->".
HasComment(text) ==
    \E i \in 1..Len(text) :
        /\ MatchAt(text, i, CommentOpen)
        /\ \E j \in (i + 4)..Len(text) : MatchAt(text, j, CommentClose)

\* C25: the result of cleanMarkdownForMDX holds no HTML comment, whatever the
\* text it is given.
C25_NoCommentInOutput ==
    Len(mdx) >= 2 => ~HasComment(mdx[2])

\* C26: cleanMarkdownForMDX leaves an img tag that is self-closed already,
\* <img a />, as it is.
C26_SelfClosedImgUnchanged ==
    (Len(mdx) >= 2 /\ mdx[1] = ImgSelfClosed) => mdx[2] = ImgSelfClosed

\* C27: with a private source configured and no token, the missing-token
\* warning is logged exactly once, before any source is attempted; the run goes
\* on to its sources; and when the run is over every private source has been
\* attempted and has failed before any request, and every one for which
\* syncSource returned its outcome failed with the missing-token error and has
\* the fallback content at its output path.
C27_MissingTokenWarnedOnceAndFallback ==
    ((\E k \in 1..Len(sources) : sources[k].private) /\ token = "") =>
        /\ log.missingToken = IF pc = "start" THEN 0 ELSE 1
        /\ pc = "start" => attempts = <<>>
        /\ pc \notin {"start", "loop"} => attempts # <<>>
        /\ pc = "exited" =>
               \A k \in 1..Len(sources) :
                   sources[k].private =>
                       /\ k <= Len(hist)
                       /\ ~hist[k].resolved
                       /\ hist[k].returned =>
                              /\ hist[k].fallbackWritten
                              /\ hist[k].failure.kind =
                                     "GitHub token is required for private repositories"
                              /\ hist[k].after = FallbackExpected

\* C28: when the run is over, every source that shares its output path with
\* another has been processed and has its own outcome, and the file at a shared
\* path is the one the last source with that path left there: by then no
\* other source has written to it.
C28_DuplicateOutputsLastWins ==
    pc = "exited" =>
        \A i, j \in 1..Len(sources) :
            (i < j /\ sources[i].output = sources[j].output) =>
                /\ j <= Len(hist)
                /\ hist[i].returned /\ hist[j].returned
                /\ Len(results) = Len(sources)
                /\ results[i].url = sources[i].url /\ results[j].url = sources[j].url
                /\ (\A m \in (j + 1)..Len(sources) : sources[m].output # sources[j].output)
                       => files[sources[j].output] = hist[j].after

\* C30: downloadMultiple starts a download for every url, and the request of
\* each before any callback of any of them is delivered; when its promise
\* resolves every download has resolved and the k-th value is the result of
\* the k-th url's download, with the url its last request went to, whatever
\* the order the downloads finished in; and its promise is rejected as soon
\* as one download is, with the error of a rejected download.
C30_ParallelStartOrderedResults ==
    pc # "start" =>
        /\ Len(multi.promises) = Len(multi.urls)
        /\ \A k \in 1..Len(multi.urls) :
               (ValidUrl(multi.urls[k])
                /\ ~(Default(multi.options.isPrivate, FALSE) /\ Falsy(token))) =>
                   \E j \in 1..Len(multi.started) :
                       multi.started[j] = [index |-> k, url |-> multi.urls[k],
                                           delivered |-> 0]
        /\ multi.all = "resolved" =>
               /\ Len(multi.values) = Len(multi.urls)
               /\ \A k \in 1..Len(multi.urls) :
                      /\ multi.promises[k].state = "resolved"
                      /\ multi.values[k] = Result(multi.promises[k])
                      /\ \E j \in 1..Len(multi.started) :
                             /\ multi.started[j].index = k
                             /\ multi.started[j].url = multi.values[k].finalUrl
                             /\ \A i \in (j + 1)..Len(multi.started) :
                                    multi.started[i].index # k
        /\ (\E k \in 1..Len(multi.urls) : multi.promises[k].state = "rejected") =>
               multi.all = "rejected"
        /\ multi.all = "rejected" =>
               \E k \in 1..Len(multi.urls) :
                   /\ multi.promises[k].state = "rejected"
                   /\ multi.promises[k].error = multi.error

C30_Witness ==
    /\ multi.all = "resolved"
    /\ multi.urls = <<UrlA, UrlB>>
    /\ multi.finished = <<2, 1>>
    /\ multi.values[1] = [content |-> BodyPlain, statusCode |-> 200, finalUrl |-> UrlA]
    /\ multi.values[2] = [content |-> BodyHtml, statusCode |-> 200, finalUrl |-> UrlB]

====
